---- MODULE Spec2Model ----
(***************************************************************************)
(* RS_scanner: the batch enrichment pipeline of utils.py                   *)
(* (get_market_cap_and_rs / process_single_ticker / the sector cache) and  *)
(* the RS formulas of app.py and fetch_and_save.py.                        *)
(*                                                                         *)
(* Conventions                                                             *)
(*  - a Python float is a record [nan, num, den]: NaN, or the exact        *)
(*    rational num/den in lowest terms with den > 0;                       *)
(*  - a Python str that the code takes apart (a ticker, a quoteType, the   *)
(*    formatted market cap) is a sequence of one-character strings; a str  *)
(*    the code only compares (Sector, Industry) is a TLA+ string;          *)
(*  - an optional value (None or a value) is a sequence of length 0 or 1;  *)
(*  - a DataFrame of one symbol is a record with its number of sessions    *)
(*    and the closing prices at the four positions the code reads          *)
(*    (iloc[-1], iloc[-61], iloc[-6], iloc[-66]).                          *)
(***************************************************************************)
EXTENDS Integers, Sequences, FiniteSets, TLC

VARIABLES
    provider,          \* the provider behaviours explored in this run
    ticker_info_list,  \* the input: a list of ticker symbols
    batch_size,        \* the batch_size argument
    pc,                \* position of the main thread in get_market_cap_and_rs
    qqq_data,          \* the benchmark frame
    i,                 \* loop index of the current pass (0-based, as in the code)
    data,              \* the bulk download result of the current batch
    futures,           \* the futures of the current batch, in submission order
    collected,         \* how many futures the main thread has consumed
    results,           \* the accumulated result list
    failed_tickers,    \* the retry list
    SECTOR_CACHE,      \* the module-level cache dict
    cache_file,        \* the content of static/sector_search.json
    first_pass,        \* history: results when the first pass ended
    retried,           \* history: tickers submitted to a retry batch
    save_calls,        \* history: number of calls of save_sector_cache
    info_queries,      \* history: <<original ticker, symbol>> of each Ticker.info read
    calc,              \* the RS formulas applied to one stock and the benchmark
    assembled,         \* the ranking of a result set: its input and its output
    downloads,         \* history: the bulk downloads the run has issued
    run                \* which call of get_market_cap_and_rs this is, and what
                       \* the call before it returned and left in the cache

vars == <<provider, ticker_info_list, batch_size, pc, qqq_data, i, data, futures,
          collected, results, failed_tickers, SECTOR_CACHE, cache_file,
          first_pass, retried, save_calls, info_queries, calc, run, assembled,
         downloads>>

-----------------------------------------------------------------------------
(* Bounds of the model *)
MaxTickers == 2
MaxBatchSize == 2

(* Program constants *)
default_batch_size == 20
retry_batch_size == 20
max_workers == 5
MinSessions == 67

-----------------------------------------------------------------------------
(* Floats *)
NaN == [nan |-> TRUE, num |-> 0, den |-> 1]

Abs(x) == IF x < 0 THEN -x ELSE x

RECURSIVE GCD(_, _)
GCD(a, b) == IF b = 0 THEN a ELSE GCD(b, a % b)

Frac(n, d) ==
    LET g == GCD(Abs(n), Abs(d))
        s == IF d < 0 THEN -1 ELSE 1
    IN  [nan |-> FALSE, num |-> (s * n) \div g, den |-> (s * d) \div g]

Num(n) == Frac(n, 1)

IsNaN(x) == x.nan

\* bool(x) of a float: only 0.0 is falsy, NaN is truthy
Truthy(x) == x.nan \/ x.num # 0

\* x == 0 / x != 0 of a float: NaN == 0 is False
IsZero(x) == ~x.nan /\ x.num = 0

\* numpy's inf, the quotient of a non-zero float64 by 0
Inf == [nan |-> FALSE, num |-> 1, den |-> 0]

IsFinite(x) == ~x.nan /\ x.den # 0

Sub(x, y) ==
    IF x.nan \/ y.nan \/ (x.den = 0 /\ y.den = 0) THEN NaN
    ELSE IF x.den = 0 \/ y.den = 0 THEN Inf
    ELSE Frac(x.num * y.den - y.num * x.den, x.den * y.den)

Mul(x, y) ==
    IF x.nan \/ y.nan THEN NaN
    ELSE IF x.den = 0 \/ y.den = 0 THEN Inf
    ELSE Frac(x.num * y.num, x.den * y.den)

Div(x, y) ==
    IF x.nan \/ y.nan \/ (x.num = 0 /\ y.num = 0) \/ (x.den = 0 /\ y.den = 0) THEN NaN
    ELSE IF y.num = 0 \/ x.den = 0 THEN Inf
    ELSE IF y.den = 0 THEN Frac(0, 1)
    ELSE Frac(x.num * y.den, x.den * y.num)

\* round(x, d) with scale = 10^d: to the nearest multiple of 1/scale, half to even
Round(x, scale) ==
    IF x.nan \/ x.den = 0 THEN x
    ELSE LET sc == x.num * scale
             q  == sc \div x.den
             r  == sc % x.den
         IN  Frac(IF 2 * r > x.den \/ (2 * r = x.den /\ q % 2 = 1) THEN q + 1 ELSE q, scale)

-----------------------------------------------------------------------------
(* Strings that the code takes apart *)
Contains(s, c) == \E k \in 1..Len(s) : s[k] = c

RECURSIVE Replace(_, _, _)
Replace(s, c, r) ==
    IF s = <<>> THEN <<>>
    ELSE (IF Head(s) = c THEN r ELSE <<Head(s)>>) \o Replace(Tail(s), c, r)

sanitize_ticker_for_yf(ticker) ==
    IF Contains(ticker, "-") THEN Replace(ticker, "-", <<"-", "P">>)
    ELSE IF Contains(ticker, ".") THEN Replace(ticker, ".", <<"-">>)
    ELSE ticker

(* "ETF" in quote_type / str.upper(), on character sequences *)
IsInfix(sub, s) ==
    \E k \in 0..(Len(s) - Len(sub)) : SubSeq(s, k + 1, k + Len(sub)) = sub

UpperChar(c) ==
    CASE c = "e" -> "E" [] c = "t" -> "T" [] c = "f" -> "F" [] c = "n" -> "N"
      [] c = "q" -> "Q" [] c = "u" -> "U" [] c = "i" -> "I" [] c = "y" -> "Y"
      [] OTHER -> c

Upper(s) == [k \in 1..Len(s) |-> UpperChar(s[k])]

Digit(d) == <<"0", "1", "2", "3", "4", "5", "6", "7", "8", "9">>[d + 1]

RECURSIVE Decimal(_)
Decimal(n) == IF n < 10 THEN <<Digit(n)>> ELSE Decimal(n \div 10) \o <<Digit(n % 10)>>

\* f"{market_cap / 1e9:.2f}B": hundredths of a billion, rounded half to even
FormatCap(market_cap) ==
    LET q == market_cap \div 10000000
        r == market_cap % 10000000
        cents == IF 2 * r > 10000000 \/ (2 * r = 10000000 /\ q % 2 = 1) THEN q + 1 ELSE q
    IN  Decimal(cents \div 100) \o <<".", Digit((cents % 100) \div 10), Digit(cents % 10), "B">>

NA == <<"N", "/", "A">>

-----------------------------------------------------------------------------
(* The price provider: frames *)
Frame(col, close, n, p1, p61, p6, p66) ==
    [col |-> col, close |-> close, n |-> n, p1 |-> p1, p61 |-> p61, p6 |-> p6, p66 |-> p66]

\* a symbol the bulk result has no column for
NoColumn == Frame(FALSE, FALSE, 0, NaN, NaN, NaN, NaN)
\* pd.DataFrame(): no 'Close' column
NoClose == Frame(TRUE, FALSE, 0, NaN, NaN, NaN, NaN)
\* a 'Close' column without a row
EmptyFrame == Frame(TRUE, TRUE, 0, NaN, NaN, NaN, NaN)
\* n sessions; latest, 60 sessions ago, 5 sessions ago, 65 sessions ago
Series(n, p1, p61, p6, p66) == Frame(TRUE, TRUE, n, Num(p1), Num(p61), Num(p6), Num(p66))
\* a column of NaN: what the provider returns for a symbol it could not load
NaNSeries(n) == Frame(TRUE, TRUE, n, NaN, NaN, NaN, NaN)

-----------------------------------------------------------------------------
(* process_single_ticker, up to the read of SECTOR_CACHE *)

\* the frame of the ticker in the bulk result; <<>> where the code returns None
ticker_frame(original_ticker, batch_data) ==
    LET yf_ticker == sanitize_ticker_for_yf(original_ticker)
        df == IF batch_data.multi
              THEN IF yf_ticker \in DOMAIN batch_data.cols /\ batch_data.cols[yf_ticker].col
                   THEN <<batch_data.cols[yf_ticker]>>
                   ELSE <<>>
              ELSE <<batch_data.cols[CHOOSE y \in DOMAIN batch_data.cols : TRUE]>>
    IN  IF df = <<>> THEN <<>>
        ELSE IF ~df[1].close \/ df[1].n = 0 THEN <<>>
        ELSE df

\* (latest - ago) / ago if ago else 0
price_return(latest, ago) == IF Truthy(ago) THEN Div(Sub(latest, ago), ago) ELSE Num(0)

\* mutant: the length of the benchmark is not tested
rs_scores_unchecked_benchmark(df, qqq) ==
    IF df.n >= MinSessions
    THEN [RS  |-> Sub(price_return(df.p1, df.p61), price_return(qqq.p1, qqq.p61)),
          RS5 |-> Sub(price_return(df.p6, df.p66), price_return(qqq.p6, qqq.p66))]
    ELSE [RS |-> Num(0), RS5 |-> Num(0)]

\* mutant: a benchmark return of 0 forces the scores to 0
rs_scores_zero_when_flat(df, qqq) ==
    IF df.n >= MinSessions /\ qqq.close /\ qqq.n >= MinSessions
    THEN [RS  |-> IF IsZero(price_return(qqq.p1, qqq.p61)) THEN Num(0)
                  ELSE Sub(price_return(df.p1, df.p61), price_return(qqq.p1, qqq.p61)),
          RS5 |-> IF IsZero(price_return(qqq.p6, qqq.p66)) THEN Num(0)
                  ELSE Sub(price_return(df.p6, df.p66), price_return(qqq.p6, qqq.p66))]
    ELSE [RS |-> Num(0), RS5 |-> Num(0)]

\* mutant: too short a history leaves the scores undefined
rs_scores_undefined_when_short(df, qqq) ==
    IF df.n >= MinSessions /\ qqq.close /\ qqq.n >= MinSessions
    THEN [RS  |-> Sub(price_return(df.p1, df.p61), price_return(qqq.p1, qqq.p61)),
          RS5 |-> Sub(price_return(df.p6, df.p66), price_return(qqq.p6, qqq.p66))]
    ELSE [RS |-> NaN, RS5 |-> NaN]

\* RS and RS5 of a frame against the benchmark frame
rs_scores(df, qqq) ==
    IF df.n >= MinSessions /\ qqq.close /\ qqq.n >= MinSessions
    THEN [RS  |-> Sub(price_return(df.p1, df.p61), price_return(qqq.p1, qqq.p61)),
          RS5 |-> Sub(price_return(df.p6, df.p66), price_return(qqq.p6, qqq.p66))]
    ELSE [RS |-> Num(0), RS5 |-> Num(0)]

-----------------------------------------------------------------------------
(* process_single_ticker, the metadata part *)
Absent == "<absent>"

CacheSentinels == {"N/A", "nan", "NONE"}

\* bool(cached): None and {} are falsy
cached_truthy(cached) ==
    cached # <<>> /\ ~(cached[1].Sector = Absent /\ cached[1].Industry = Absent)

\* mutant: "in" for "not in"
cache_hit_inverted(cached) ==
    /\ cached_truthy(cached)
    /\ cached[1].Sector \in CacheSentinels
    /\ cached[1].Industry \in CacheSentinels

\* the test of the "Check Cache" branch; dict.get of an absent key is None
cache_hit(cached) ==
    /\ cached_truthy(cached)
    /\ cached[1].Sector \notin CacheSentinels
    /\ cached[1].Industry \notin CacheSentinels

\* cached['Sector'] / cached['Industry'] raise KeyError on an absent key
hit_raises(cached) == cached[1].Sector = Absent \/ cached[1].Industry = Absent

Falsy(v) == v = Absent \/ v = ""

\* sector and industry out of Ticker.info
resolve_info(info) ==
    LET quote_type == Upper(info.quoteType)
        sector   == IF IsInfix(<<"E", "T", "F">>, quote_type) THEN "ETF"
                    ELSE IF IsInfix(<<"E", "T", "N">>, quote_type) THEN "ETN"
                    ELSE info.sector
        industry == IF IsInfix(<<"E", "T", "F">>, quote_type) THEN "ETF"
                    ELSE IF IsInfix(<<"E", "T", "N">>, quote_type) THEN "ETN"
                    ELSE info.industry
    IN  [Sector   |-> IF Falsy(sector) THEN "N/A" ELSE sector,
         Industry |-> IF Falsy(industry) THEN "N/A" ELSE industry]

\* mutant: the market cap is formatted whatever its value
market_cap_field_unguarded(cap) ==
    LET market_cap == IF cap.raised \/ cap.value = <<>> THEN 0 ELSE cap.value[1]
    IN  FormatCap(market_cap)

\* the 'Market Cap' field
market_cap_field(cap) ==
    LET market_cap == IF cap.raised \/ cap.value = <<>> THEN 0 ELSE cap.value[1]
    IN  IF market_cap # 0 THEN FormatCap(market_cap) ELSE NA

\* the returned dict
result_record(original_ticker, loc, meta, cap) ==
    [Ticker    |-> original_ticker,
     Price     |-> loc.Price,
     MarketCap |-> market_cap_field(cap),
     RS        |-> loc.RS,
     RS5       |-> loc.RS5,
     Sector    |-> meta.Sector,
     Industry  |-> meta.Industry]

-----------------------------------------------------------------------------
(* The RS formula of app.calculate_batch and of fetch_and_save *)

\* get_shares_outstanding: t.fast_info.get('shares', 0), or 0 on an exception
get_shares_outstanding(resp) == IF resp.raised THEN Num(0) ELSE resp.value[1]

\* the record of one ticker out of the closes table, <<>> where the ticker is
\* skipped or the table is too short; a missing QQQ column reads as 0
calculate_batch(closes_len, cur, prev, qqq, sh) ==
    LET q_cur  == IF qqq.col THEN qqq.p1 ELSE Num(0)
        q_prev == IF qqq.col THEN qqq.p61 ELSE Num(0)
        q_chg  == IF ~IsZero(q_prev) THEN Div(q_cur, q_prev) ELSE Num(0)
        chg    == Div(cur, prev)
        rs     == IF ~IsZero(q_chg) THEN Sub(Div(chg, q_chg), Num(1)) ELSE Num(0)
    IN  IF closes_len < 61 THEN <<>>
        ELSE IF IsNaN(cur) \/ IsNaN(prev) \/ IsZero(prev) THEN <<>>
        ELSE <<[RS        |-> Round(rs, 10000),
                Price     |-> Round(cur, 100),
                MarketCap |-> Round(Mul(cur, sh), 1),
                Shares    |-> sh]>>

\* fetch_and_save.get_market_cap_and_rs: the same table and the same formula
fetch_and_save(closes_len, cur, prev, qqq, sh) ==
    LET q_cur  == IF qqq.col THEN qqq.p1 ELSE Num(0)
        q_prev == IF qqq.col THEN qqq.p61 ELSE Num(0)
        q_chg  == IF ~IsZero(q_prev) THEN Div(q_cur, q_prev) ELSE Num(0)
        chg    == Div(cur, prev)
        rs     == IF ~IsZero(q_chg) THEN Sub(Div(chg, q_chg), Num(1)) ELSE Num(0)
    IN  IF closes_len < 61 THEN <<>>
        ELSE IF IsNaN(cur) \/ IsNaN(prev) \/ IsZero(prev) THEN <<>>
        ELSE <<[RS        |-> Round(rs, 10000),
                Price     |-> Round(cur, 100),
                MarketCap |-> Round(Mul(cur, sh), 1),
                Shares    |-> sh]>>

-----------------------------------------------------------------------------
(* The state machine of get_market_cap_and_rs *)

Min(a, b) == IF a < b THEN a ELSE b

Range(f) == {f[x] : x \in DOMAIN f}

InRetry == pc \in {"retry_download", "retry_collect"}

\* mutant: the slice of the first pass runs one position too far
batch_overlapping ==
    IF InRetry
    THEN SubSeq(failed_tickers, i + 1, Min(i + retry_batch_size, Len(failed_tickers)))
    ELSE SubSeq(ticker_info_list, i + 1, Min(i + batch_size + 1, Len(ticker_info_list)))

\* ticker_info_list[i:i+batch_size] / failed_tickers[i:i+retry_batch_size]
batch ==
    IF InRetry
    THEN SubSeq(failed_tickers, i + 1, Min(i + retry_batch_size, Len(failed_tickers)))
    ELSE SubSeq(ticker_info_list, i + 1, Min(i + batch_size, Len(ticker_info_list)))

\* mutant: the first pass ends with its first batch
after_first_one_batch(next_i) == "identify"

\* the loop tests of the two passes
after_first(next_i) == IF next_i < Len(ticker_info_list) THEN "download" ELSE "identify"
after_retry(next_i) == IF next_i < Len(failed_tickers) THEN "retry_download" ELSE "save"

\* a future: queued, running (its worker has read SECTOR_CACHE) or done.
\* path, wrote and cap_failed are history: the branch the worker took at
\* "Check Cache", whether it assigned SECTOR_CACHE[original_ticker], and
\* whether t.fast_info raised
NoLocals == [Price |-> NaN, RS |-> NaN, RS5 |-> NaN, cached |-> <<>>]
Queued(t) == [ticker |-> t, st |-> "queued", loc |-> NoLocals, res |-> <<>>,
              path |-> "none", wrote |-> FALSE, cap_failed |-> FALSE]

NoData == [multi |-> TRUE, cols |-> <<>>]

\* the responses yf.download can give for a list of symbols
download_responses(symbols) ==
    {[multi |-> TRUE, cols |-> c] : c \in [symbols -> provider.frames]}
    \cup (IF provider.flat /\ Cardinality(symbols) = 1
          THEN {[multi |-> FALSE, cols |-> c] : c \in [symbols -> provider.frames \ {NoColumn}]}
          ELSE {})

\* yf.download("QQQ"): an exception leaves pd.DataFrame()
FetchBenchmark ==
    /\ pc = "benchmark"
    /\ \E q \in provider.bench : qqq_data' = q
    /\ pc' = after_first(0)
    /\ UNCHANGED <<downloads, assembled, run, calc, provider, ticker_info_list, batch_size, i, data, futures, collected,
                   results, failed_tickers, SECTOR_CACHE, cache_file, first_pass,
                   retried, save_calls, info_queries>>

\* a call of yf.download for the current batch, and whether it raised
Download(raised) ==
    [pass |-> IF InRetry THEN "retry" ELSE "first", tickers |-> batch, raised |-> raised]

\* the bulk download of a batch, and the submission of its tickers to the pool
submit_batch(next_pc) ==
    \E d \in download_responses({sanitize_ticker_for_yf(batch[k]) : k \in 1..Len(batch)}) :
        /\ data' = d
        /\ futures' = [k \in 1..Len(batch) |-> Queued(batch[k])]
        /\ collected' = 0
        /\ pc' = next_pc
        /\ i' = i
        /\ downloads' = Append(downloads, Download(FALSE))

\* mutant: the except clause sits outside the loop, a raising download ends the pass
skip_batch_ends_pass(next_pc) ==
    /\ provider.raises
    /\ pc' = IF InRetry THEN "save" ELSE "identify"
    /\ downloads' = Append(downloads, Download(TRUE))
    /\ UNCHANGED <<data, futures, collected>>

\* the download raises: the except clause, then the next batch
skip_batch(next_pc) ==
    /\ provider.raises
    /\ pc' = next_pc
    /\ downloads' = Append(downloads, Download(TRUE))
    /\ UNCHANGED <<data, futures, collected>>

DownloadBatch ==
    /\ pc = "download"
    /\ \/ submit_batch("collect")
       \/ skip_batch(after_first(i + batch_size)) /\ i' = i + batch_size
    /\ UNCHANGED <<assembled, run, calc, provider, ticker_info_list, batch_size, qqq_data, results,
                   failed_tickers, SECTOR_CACHE, cache_file, first_pass, retried,
                   save_calls, info_queries>>

Running == {k \in 1..Len(futures) : futures[k].st = "running"}

\* mutant: the pool has a thread for every future
can_start_unbounded(k) ==
    /\ pc \in {"collect", "retry_collect"}
    /\ futures[k].st = "queued"

\* a pool thread takes the future and runs process_single_ticker up to the
\* read of SECTOR_CACHE
can_start(k) ==
    /\ pc \in {"collect", "retry_collect"}
    /\ futures[k].st = "queued"
    /\ Cardinality(Running) < max_workers

WorkerStart(k) ==
    /\ can_start(k)
    /\ LET original_ticker == futures[k].ticker
           df == ticker_frame(original_ticker, data)
       IN  IF df = <<>>
           THEN futures' = [futures EXCEPT ![k].st = "done"]
           ELSE LET rs == rs_scores(df[1], qqq_data)
                IN  futures' = [futures EXCEPT
                        ![k].st = "running",
                        ![k].loc = [Price |-> df[1].p1, RS |-> rs.RS, RS5 |-> rs.RS5,
                                    cached |-> SECTOR_CACHE[original_ticker]]]
    /\ UNCHANGED <<downloads, assembled, run, calc, provider, ticker_info_list, batch_size, pc, qqq_data, i, data,
                   collected, results, failed_tickers, SECTOR_CACHE, cache_file,
                   first_pass, retried, save_calls, info_queries>>

\* mutant: the hit branch assigns the entry it read back to the cache
finish_hit_writes_back(k, cap) ==
    /\ futures' = [futures EXCEPT
           ![k].st = "done",
           ![k].path = "hit",
           ![k].wrote = TRUE,
           ![k].cap_failed = ~hit_raises(futures[k].loc.cached) /\ cap.raised,
           ![k].res = IF hit_raises(futures[k].loc.cached) THEN <<>>
                      ELSE <<result_record(futures[k].ticker, futures[k].loc,
                                           futures[k].loc.cached[1], cap)>>]
    /\ SECTOR_CACHE' = [SECTOR_CACHE EXCEPT ![futures[k].ticker] = futures[k].loc.cached]
    /\ UNCHANGED info_queries

\* the "Check Cache" branch: no provider call, or KeyError and None
finish_hit(k, cap) ==
    /\ futures' = [futures EXCEPT
           ![k].st = "done",
           ![k].path = "hit",
           ![k].cap_failed = ~hit_raises(futures[k].loc.cached) /\ cap.raised,
           ![k].res = IF hit_raises(futures[k].loc.cached) THEN <<>>
                      ELSE <<result_record(futures[k].ticker, futures[k].loc,
                                           futures[k].loc.cached[1], cap)>>]
    /\ UNCHANGED <<SECTOR_CACHE, info_queries>>

\* mutant: the cache is written under the sanitized symbol
finish_miss_sanitized_key(k, info, cap) ==
    LET original_ticker == futures[k].ticker
        yf_ticker == sanitize_ticker_for_yf(original_ticker)
        meta == IF info.raised THEN [Sector |-> "N/A", Industry |-> "N/A"]
                ELSE resolve_info(info)
    IN  /\ info_queries' = info_queries \cup {<<original_ticker, yf_ticker>>}
        /\ SECTOR_CACHE' = IF info.raised \/ yf_ticker \notin DOMAIN SECTOR_CACHE
                           THEN SECTOR_CACHE
                           ELSE [SECTOR_CACHE EXCEPT ![yf_ticker] = <<meta>>]
        /\ futures' = [futures EXCEPT
               ![k].st = "done",
               ![k].path = "miss",
               ![k].wrote = ~info.raised,
               ![k].cap_failed = cap.raised,
               ![k].res = <<result_record(original_ticker, futures[k].loc, meta, cap)>>]

\* mutant: the worker rebinds the cache to the entries of the cache file plus
\* its own entry
finish_miss_rebuilds_cache(k, info, cap) ==
    LET original_ticker == futures[k].ticker
        meta == IF info.raised THEN [Sector |-> "N/A", Industry |-> "N/A"]
                ELSE resolve_info(info)
    IN  /\ info_queries' = info_queries \cup
                {<<original_ticker, sanitize_ticker_for_yf(original_ticker)>>}
        /\ SECTOR_CACHE' = IF info.raised THEN SECTOR_CACHE
                           ELSE [cache_file EXCEPT ![original_ticker] = <<meta>>]
        /\ futures' = [futures EXCEPT
               ![k].st = "done",
               ![k].path = "miss",
               ![k].wrote = ~info.raised,
               ![k].cap_failed = cap.raised,
               ![k].res = <<result_record(original_ticker, futures[k].loc, meta, cap)>>]

\* the "Fetch Metadata" branch: Ticker.info, then the write of SECTOR_CACHE
finish_miss(k, info, cap) ==
    LET original_ticker == futures[k].ticker
        meta == IF info.raised THEN [Sector |-> "N/A", Industry |-> "N/A"]
                ELSE resolve_info(info)
    IN  /\ info_queries' = info_queries \cup
                {<<original_ticker, sanitize_ticker_for_yf(original_ticker)>>}
        /\ SECTOR_CACHE' = IF info.raised THEN SECTOR_CACHE
                           ELSE [SECTOR_CACHE EXCEPT ![original_ticker] = <<meta>>]
        /\ futures' = [futures EXCEPT
               ![k].st = "done",
               ![k].path = "miss",
               ![k].wrote = ~info.raised,
               ![k].cap_failed = cap.raised,
               ![k].res = <<result_record(original_ticker, futures[k].loc, meta, cap)>>]

\* the rest of process_single_ticker: metadata, market cap, the returned dict
can_finish(k) ==
    /\ pc \in {"collect", "retry_collect"}
    /\ futures[k].st = "running"

WorkerFinish(k) ==
    /\ can_finish(k)
    /\ \E cap \in provider.caps :
          IF cache_hit(futures[k].loc.cached)
          THEN finish_hit(k, cap)
          ELSE \E info \in provider.infos : finish_miss(k, info, cap)
    /\ UNCHANGED <<downloads, assembled, run, calc, provider, ticker_info_list, batch_size, pc, qqq_data, i, data,
                   collected, results, failed_tickers, cache_file, first_pass,
                   retried, save_calls>>

\* for future in future_to_ticker: res = future.result(); if res: results.append(res)
first_merge(rs, res) == IF res = <<>> THEN rs ELSE Append(rs, res[1])

\* with the last future consumed the pool is shut down and the loop goes on;
\* data and the futures stay bound until the next batch rebinds them
end_of_batch(next_pc) ==
    /\ collected' = collected + 1
    /\ pc' = IF collected + 1 = Len(futures) THEN next_pc ELSE pc
    /\ UNCHANGED <<futures, data>>

\* future.result() returns once the future is done
can_collect == collected < Len(futures) /\ futures[collected + 1].st = "done"

CollectResult ==
    /\ pc = "collect"
    /\ can_collect
    /\ results' = first_merge(results, futures[collected + 1].res)
    /\ end_of_batch(after_first(i + batch_size))
    /\ i' = IF collected + 1 = Len(futures) THEN i + batch_size ELSE i
    /\ UNCHANGED <<downloads, assembled, run, calc, provider, ticker_info_list, batch_size, qqq_data, failed_tickers,
                   SECTOR_CACHE, cache_file, first_pass, retried, save_calls,
                   info_queries>>

\* mutant: an RS of 0 counts as a failure too
rs_is_valid_nonzero(rs_val) == ~IsNaN(rs_val) /\ ~IsZero(rs_val)

\* the RS test of the retry logic: a number other than NaN, 0 included
rs_is_valid(rs_val) == (~IsNaN(rs_val) /\ ~IsZero(rs_val)) \/ IsZero(rs_val)

processed_tickers(rs) == {rs[k].Ticker : k \in {n \in 1..Len(rs) : rs_is_valid(rs[n].RS)}}

all_tickers == Range(ticker_info_list)

\* all_tickers - processed_tickers
failed_set(rs) == all_tickers \ processed_tickers(rs)

\* list(a set): every order
Orderings(S) ==
    {f \in [1..Cardinality(S) -> S] : \A a, b \in 1..Cardinality(S) : a # b => f[a] # f[b]}

\* mutant: the save sits inside "if failed_tickers:"
IdentifyFailedSaveInsideIf ==
    /\ pc = "identify"
    /\ first_pass' = results
    /\ \E order \in Orderings(failed_set(results)) : failed_tickers' = order
    /\ i' = 0
    /\ pc' = IF failed_set(results) # {} THEN "retry_download" ELSE "done"
    /\ UNCHANGED <<downloads, assembled, run, calc, provider, ticker_info_list, batch_size, qqq_data, data, futures,
                   collected, results, SECTOR_CACHE, cache_file, retried, save_calls,
                   info_queries>>

IdentifyFailed ==
    /\ pc = "identify"
    /\ first_pass' = results
    /\ \E order \in Orderings(failed_set(results)) : failed_tickers' = order
    /\ i' = 0
    /\ pc' = IF failed_set(results) # {} THEN "retry_download" ELSE "save"
    /\ UNCHANGED <<downloads, assembled, run, calc, provider, ticker_info_list, batch_size, qqq_data, data, futures,
                   collected, results, SECTOR_CACHE, cache_file, retried, save_calls,
                   info_queries>>

RetryDownload ==
    /\ pc = "retry_download"
    /\ retried' = retried \cup Range(batch)
    /\ \/ submit_batch("retry_collect")
       \/ skip_batch(after_retry(i + retry_batch_size)) /\ i' = i + retry_batch_size
    /\ UNCHANGED <<assembled, run, calc, provider, ticker_info_list, batch_size, qqq_data, results,
                   failed_tickers, SECTOR_CACHE, cache_file, first_pass, save_calls,
                   info_queries>>

\* mutant: the old records are removed before the RS test of the retry
retry_merge_drops(rs, res) ==
    IF res = <<>> THEN rs
    ELSE LET Keep(r) == r.Ticker # res[1].Ticker
         IN  IF ~IsNaN(res[1].RS) THEN Append(SelectSeq(rs, Keep), res[1])
             ELSE SelectSeq(rs, Keep)

\* mutant: a recovered record is appended next to the records of its ticker
retry_merge_keeps_old(rs, res) ==
    IF res = <<>> THEN rs
    ELSE IF ~IsNaN(res[1].RS) THEN Append(rs, res[1])
         ELSE rs

\* a recovered record replaces the records of its ticker
retry_merge(rs, res) ==
    IF res = <<>> THEN rs
    ELSE IF ~IsNaN(res[1].RS)
         THEN LET Keep(r) == r.Ticker # res[1].Ticker
              IN  Append(SelectSeq(rs, Keep), res[1])
         ELSE rs

RetryCollect ==
    /\ pc = "retry_collect"
    /\ can_collect
    /\ results' = retry_merge(results, futures[collected + 1].res)
    /\ end_of_batch(after_retry(i + retry_batch_size))
    /\ i' = IF collected + 1 = Len(futures) THEN i + retry_batch_size ELSE i
    /\ UNCHANGED <<downloads, assembled, run, calc, provider, ticker_info_list, batch_size, qqq_data, failed_tickers,
                   SECTOR_CACHE, cache_file, first_pass, retried, save_calls,
                   info_queries>>

\* save_sector_cache: the dump, or an OSError that is printed and swallowed
SaveCache ==
    /\ pc = "save"
    /\ save_calls' = save_calls + 1
    /\ \/ cache_file' = SECTOR_CACHE
       \/ provider.disk_fails /\ cache_file' = cache_file
    /\ pc' = "done"
    /\ UNCHANGED <<downloads, assembled, run, calc, provider, ticker_info_list, batch_size, qqq_data, i, data, futures,
                   collected, results, failed_tickers, SECTOR_CACHE, first_pass,
                   retried, info_queries>>

-----------------------------------------------------------------------------
(* The inputs and the provider behaviours *)

Universe == {<<"A">>, <<"B", "-", "A">>, <<"B", ".", "P", "A">>}

TickerLists == UNION {[1..n -> Universe] : n \in 0..MaxTickers}

EmptyCache == [t \in Universe |-> <<>>]

Raised == [raised |-> TRUE, quoteType |-> <<>>, sector |-> Absent, industry |-> Absent]
Info(qt, sector, industry) ==
    [raised |-> FALSE, quoteType |-> qt, sector |-> sector, industry |-> industry]
Equity == <<"E", "Q", "U", "I", "T", "Y">>

CapRaised == [raised |-> TRUE, value |-> <<>>]
Cap(v) == [raised |-> FALSE, value |-> v]

\* the behaviours explored for the batching and retry logic
PipelineProvider ==
    [lists      |-> TickerLists,
     frames     |-> {Series(66, 120, 100, 110, 100), NaNSeries(67),
                     Series(67, 120, 100, 110, 100)},
     bench      |-> {Series(67, 110, 100, 105, 100)},
     infos      |-> {Info(Equity, "Technology", "Software")},
     caps       |-> {Cap(<<1500000000>>)},
     raises     |-> TRUE,
     flat       |-> FALSE,
     disk_fails |-> TRUE,
     caches     |-> {EmptyCache}]

\* the cache entries a cache file can hold for a ticker
Entry(sector, industry) == <<[Sector |-> sector, Industry |-> industry]>>

CacheEntries ==
    {<<>>,
     Entry("Technology", "Consumer Electronics"),
     Entry("Technology", Absent), Entry(Absent, Absent),
     Entry("", ""), Entry("NULL", "NULL"),
     Entry("N/A", "N/A"), Entry("Technology", "nan"), Entry("NONE", "Software")}

\* a cache file with an entry for at most one ticker
Caches == {[EmptyCache EXCEPT ![t] = e] : t \in Universe, e \in CacheEntries}

\* the behaviours explored for the metadata part of process_single_ticker
MetadataProvider ==
    [lists      |-> {<<t>> : t \in Universe},
     frames     |-> {NaNSeries(67), Series(67, 120, 100, 110, 100)},
     bench      |-> {Series(67, 110, 100, 105, 100)},
     infos      |-> {Raised, Info(Equity, "Technology", "Software"),
                     Info(<<"e", "t", "f">>, "Funds", Absent),
                     Info(Equity, "", Absent)},
     caps       |-> {CapRaised, Cap(<<0>>), Cap(<<1500000000>>)},
     raises     |-> FALSE,
     flat       |-> TRUE,
     disk_fails |-> FALSE,
     caches     |-> Caches]

\* the first call in this process: nothing returned before
FirstRun == [n |-> 1, first |-> <<>>, start |-> EmptyCache]

\* no result set is being ranked
NotAssembled == [input |-> <<>>, done |-> FALSE, out |-> <<>>]

\* no RS computation is being exercised
NoCalc == [stock |-> NoColumn, qqq |-> NoColumn, shares |-> CapRaised,
           by |-> "none", out |-> <<>>]

\* the state at the call of get_market_cap_and_rs, for a batch_size in sizes
InitWithSizes(p, sizes) ==
    /\ provider = p
    /\ ticker_info_list \in p.lists
    /\ batch_size \in sizes
    /\ pc = "benchmark"
    /\ qqq_data = NoClose
    /\ i = 0
    /\ data = NoData
    /\ futures = <<>>
    /\ collected = 0
    /\ results = <<>>
    /\ failed_tickers = <<>>
    /\ cache_file \in p.caches
    /\ SECTOR_CACHE = cache_file
    /\ first_pass = <<>>
    /\ retried = {}
    /\ save_calls = 0
    /\ info_queries = {}
    /\ calc = NoCalc
    /\ run = FirstRun
    /\ assembled = NotAssembled
    /\ downloads = <<>>

InitWith(p) == InitWithSizes(p, 1..MaxBatchSize)

Init == InitWith(PipelineProvider)

Next ==
    \/ FetchBenchmark
    \/ DownloadBatch
    \/ \E k \in 1..Len(futures) : WorkerStart(k)
    \/ \E k \in 1..Len(futures) : WorkerFinish(k)
    \/ CollectResult
    \/ IdentifyFailed
    \/ RetryDownload
    \/ RetryCollect
    \/ SaveCache

Spec == Init /\ [][Next]_vars

InitMetadata == InitWith(MetadataProvider)

\* the behaviours explored for the containment of failures: downloads that
\* raise, symbols missing from a download, and a cache entry that makes the
\* worker of its ticker raise
ContainmentProvider ==
    [lists      |-> TickerLists,
     frames     |-> {NoColumn, Series(67, 120, 100, 110, 100)},
     bench      |-> {Series(67, 110, 100, 105, 100)},
     infos      |-> {Info(Equity, "Technology", "Software")},
     caps       |-> {Cap(<<1500000000>>)},
     raises     |-> TRUE,
     flat       |-> FALSE,
     disk_fails |-> FALSE,
     caches     |-> {EmptyCache, [EmptyCache EXCEPT ![<<"A">>] = Entry("Technology", Absent)]}]

InitContainment == InitWith(ContainmentProvider)

\* the behaviours explored for the benchmark: the QQQ download raises, returns
\* no row, returns 66 sessions or returns 67
BenchmarkProvider ==
    [lists      |-> TickerLists,
     frames     |-> {NaNSeries(67), Series(67, 120, 100, 110, 100)},
     bench      |-> {NoClose, EmptyFrame, Series(66, 110, 100, 105, 100),
                     Series(67, 110, 100, 105, 100)},
     infos      |-> {Info(Equity, "Technology", "Software")},
     caps       |-> {Cap(<<1500000000>>)},
     raises     |-> TRUE,
     flat       |-> FALSE,
     disk_fails |-> FALSE,
     caches     |-> {EmptyCache}]

InitBenchmark == InitWith(BenchmarkProvider)

\* the behaviours explored for the batching of the first pass: lists of two
\* symbols, one ticker longer than the largest batch size, so that a full batch can be
\* followed by a shorter last one
PartitionLists ==
    UNION {[1..n -> {<<"A">>, <<"B", "-", "A">>}] : n \in 0..(MaxBatchSize + 1)}

PartitionProvider ==
    [lists      |-> PartitionLists,
     frames     |-> {NoColumn, Series(67, 120, 100, 110, 100)},
     bench      |-> {Series(67, 110, 100, 105, 100)},
     infos      |-> {Info(Equity, "Technology", "Software")},
     caps       |-> {Cap(<<1500000000>>)},
     raises     |-> TRUE,
     flat       |-> FALSE,
     disk_fails |-> FALSE,
     caches     |-> {EmptyCache}]

InitPartition == InitWith(PartitionProvider)

\* the behaviours explored for the shared cache: batches of two workers, of
\* one ticker or of two, a provider whose Ticker.info answers differ or raise,
\* and a cache that starts with an entry of a ticker of the list or of
\* another ticker
SharedCacheLists ==
    UNION {[1..n -> {<<"A">>, <<"B", "-", "A">>}] : n \in 1..MaxTickers}

SharedCacheProvider ==
    [lists      |-> SharedCacheLists,
     frames     |-> {NaNSeries(67), Series(67, 120, 100, 110, 100)},
     bench      |-> {Series(67, 110, 100, 105, 100)},
     infos      |-> {Raised, Info(Equity, "Technology", "Software"),
                     Info(<<"e", "t", "f">>, "Funds", Absent)},
     caps       |-> {Cap(<<1500000000>>)},
     raises     |-> FALSE,
     flat       |-> FALSE,
     disk_fails |-> FALSE,
     caches     |-> {EmptyCache,
                     [EmptyCache EXCEPT ![<<"A">>] = Entry("Technology", "nan")],
                     [EmptyCache EXCEPT ![<<"B", ".", "P", "A">>] =
                         Entry("Technology", "Consumer Electronics")]}]

InitSharedCache == InitWith(SharedCacheProvider)

SpecSharedCache == InitSharedCache /\ [][Next]_vars

\* the behaviours explored for the worker pool: the default batch size and a
\* list with one ticker more than the pool has threads
PoolLists ==
    {[k \in 1..(max_workers + 1) |-> <<"A">>],
     [k \in 1..(max_workers + 1) |-> IF k = 1 THEN <<"B", "-", "A">> ELSE <<"A">>]}

PoolProvider ==
    [lists      |-> PoolLists,
     frames     |-> {NaNSeries(67), Series(67, 120, 100, 110, 100)},
     bench      |-> {Series(67, 110, 100, 105, 100)},
     infos      |-> {Info(Equity, "Technology", "Software")},
     caps       |-> {Cap(<<1500000000>>)},
     raises     |-> TRUE,
     flat       |-> FALSE,
     disk_fails |-> FALSE,
     caches     |-> {EmptyCache}]

InitPool == InitWithSizes(PoolProvider, {default_batch_size})

SpecPool == InitPool /\ [][Next]_vars

SpecPartition == InitPartition /\ [][Next]_vars

\* the main thread goes on with its next statement, the threads of the pool
\* take the queued futures and run them to their end, and every call of the
\* provider returns or raises
Fairness ==
    /\ WF_vars(FetchBenchmark)
    /\ WF_vars(DownloadBatch)
    /\ WF_vars(\E k \in 1..Len(futures) : WorkerStart(k))
    /\ WF_vars(\E k \in 1..Len(futures) : WorkerFinish(k))
    /\ WF_vars(CollectResult)
    /\ WF_vars(IdentifyFailed)
    /\ WF_vars(RetryDownload)
    /\ WF_vars(RetryCollect)
    /\ WF_vars(SaveCache)

\* the behaviours explored for the end of the run: downloads that raise, prices
\* that are NaN (a NaN RS, retried) and a history shorter than the window
TerminationLists ==
    UNION {[1..n -> {<<"A">>, <<"B", "-", "A">>}] : n \in 0..MaxTickers}

TerminationProvider ==
    [lists      |-> TerminationLists,
     frames     |-> {NaNSeries(67), Series(66, 120, 100, 110, 100)},
     bench      |-> {Series(67, 110, 100, 105, 100)},
     infos      |-> {Info(Equity, "Technology", "Software")},
     caps       |-> {Cap(<<1500000000>>)},
     raises     |-> TRUE,
     flat       |-> FALSE,
     disk_fails |-> FALSE,
     caches     |-> {EmptyCache}]

InitTermination == InitWith(TerminationProvider)

\* the run with threads that are scheduled
SpecTermination == InitTermination /\ [][Next]_vars /\ Fairness

SpecBenchmark == InitBenchmark /\ [][Next]_vars

SpecContainment == InitContainment /\ [][Next]_vars

-----------------------------------------------------------------------------
(* Two calls of get_market_cap_and_rs in a row against a provider that *)
(* answers a request the same way every time                            *)

RerunInfos == {Raised, Info(Equity, "Technology", "Software"),
               Info(<<"e", "t", "f">>, "Funds", Absent),
               Info(Equity, "", Absent)}

\* the lists called twice: symbols with and without a character to replace
RerunLists == UNION {[1..n -> {<<"A">>, <<"B", "-", "A">>}] : n \in 1..MaxTickers}

\* the cache before the first call: no entry, or one entry that is valid,
\* lacks a field, holds a sentinel or holds empty strings
RerunCaches ==
    {[EmptyCache EXCEPT ![t] = e] :
        t \in {<<"A">>, <<"B", "-", "A">>},
        e \in {<<>>, Entry("Technology", "Consumer Electronics"),
               Entry("Technology", Absent), Entry("Technology", "nan"),
               Entry("", "")}}

\* one price frame for every symbol, one answer of Ticker.info, one market
\* cap, no download error; the write of the cache file may fail
DeterministicProviders ==
    {[lists      |-> RerunLists,
      frames     |-> {f},
      bench      |-> {Series(67, 110, 100, 105, 100)},
      infos      |-> {info},
      caps       |-> {Cap(<<1500000000>>)},
      raises     |-> FALSE,
      flat       |-> FALSE,
      disk_fails |-> TRUE,
      caches     |-> RerunCaches] :
        f \in {NaNSeries(67), Series(67, 120, 100, 110, 100)}, info \in RerunInfos}

InitRerun == \E p \in DeterministicProviders : InitWith(p)

\* the function returns and is called again with the same list: its locals are
\* fresh, the module-level SECTOR_CACHE is what the first call left
Rerun ==
    /\ pc = "done"
    /\ run.n = 1
    /\ run' = [n |-> 2, first |-> results, start |-> SECTOR_CACHE]
    /\ pc' = "benchmark"
    /\ qqq_data' = NoClose
    /\ i' = 0
    /\ data' = NoData
    /\ futures' = <<>>
    /\ collected' = 0
    /\ results' = <<>>
    /\ failed_tickers' = <<>>
    /\ first_pass' = <<>>
    /\ retried' = {}
    /\ save_calls' = 0
    /\ info_queries' = {}
    /\ downloads' = <<>>
    /\ UNCHANGED <<assembled, calc, provider, ticker_info_list, batch_size, SECTOR_CACHE,
                   cache_file>>

NextRerun ==
    \/ FetchBenchmark
    \/ DownloadBatch
    \/ \E k \in 1..Len(futures) : WorkerStart(k)
    \/ \E k \in 1..Len(futures) : WorkerFinish(k)
    \/ CollectResult
    \/ IdentifyFailed
    \/ RetryDownload
    \/ RetryCollect
    \/ SaveCache
    \/ Rerun

SpecRerun == InitRerun /\ [][NextRerun]_vars

-----------------------------------------------------------------------------
(* The three RS computations applied to one stock and the benchmark *)

Prices == {NaN, Num(0), Num(100), Num(110), Num(120)}

StockFrames ==
    {Frame(TRUE, TRUE, n, p1, p61, Num(110), Num(100)) :
        n \in {60, 61, 66, 67}, p1 \in Prices, p61 \in Prices}

BenchFrames ==
    {NoColumn} \cup
    {Frame(TRUE, TRUE, n, p1, p61, Num(105), Num(100)) :
        n \in {66, 67}, p1 \in Prices, p61 \in Prices}

InitRS ==
    /\ provider = PipelineProvider
    /\ ticker_info_list = <<>>
    /\ batch_size = 1
    /\ pc = "idle"
    /\ qqq_data = NoClose
    /\ i = 0
    /\ data = NoData
    /\ futures = <<>>
    /\ collected = 0
    /\ results = <<>>
    /\ failed_tickers = <<>>
    /\ cache_file = EmptyCache
    /\ SECTOR_CACHE = EmptyCache
    /\ first_pass = <<>>
    /\ retried = {}
    /\ save_calls = 0
    /\ info_queries = {}
    /\ run = FirstRun
    /\ assembled = NotAssembled
    /\ downloads = <<>>
    /\ calc \in [stock : StockFrames, qqq : BenchFrames,
                 shares : {CapRaised, Cap(<<Num(1000)>>)}, by : {"none"}, out : {<<>>}]

pipeline_vars == <<provider, ticker_info_list, batch_size, pc, qqq_data, i, data,
                   futures, collected, results, failed_tickers, SECTOR_CACHE,
                   cache_file, first_pass, retried, save_calls, info_queries, run>>

\* the calculation of process_single_ticker
ApplyProcessSingleTicker ==
    /\ calc.by = "none"
    /\ calc' = [calc EXCEPT !.by = "utils",
                            !.out = <<rs_scores(calc.stock, calc.qqq)>>]
    /\ UNCHANGED <<pipeline_vars, assembled, downloads>>

\* the calculation of app.calculate_batch
ApplyCalculateBatch ==
    /\ calc.by = "none"
    /\ calc' = [calc EXCEPT !.by = "app",
                            !.out = calculate_batch(calc.stock.n, calc.stock.p1,
                                        calc.stock.p61, calc.qqq,
                                        get_shares_outstanding(calc.shares))]
    /\ UNCHANGED <<pipeline_vars, assembled, downloads>>

\* the calculation of fetch_and_save.get_market_cap_and_rs
ApplyFetchAndSave ==
    /\ calc.by = "none"
    /\ calc' = [calc EXCEPT !.by = "fetch",
                            !.out = fetch_and_save(calc.stock.n, calc.stock.p1,
                                        calc.stock.p61, calc.qqq,
                                        get_shares_outstanding(calc.shares))]
    /\ UNCHANGED <<pipeline_vars, assembled, downloads>>

NextRS == ApplyProcessSingleTicker \/ ApplyCalculateBatch \/ ApplyFetchAndSave

SpecRS == InitRS /\ [][NextRS]_vars

SpecMetadata == InitMetadata /\ [][Next]_vars

-----------------------------------------------------------------------------
(* Properties of the retry logic, under Spec *)

TickersOf(rs) == {rs[k].Ticker : k \in 1..Len(rs)}

RecordsOf(rs, t) == {rs[k] : k \in {n \in 1..Len(rs) : rs[n].Ticker = t}}

FirstPassOver == pc \in {"retry_download", "retry_collect", "save", "done"}

\* IdentifyFailed has just run: data and futures are those of a first-pass batch
JustIdentified == FirstPassOver /\ retried = {} /\ save_calls = 0

\* C1: the tickers of the result list during and after the retry pass are a
\* superset of the tickers the list had when the first pass ended.
C1_RetryNeverRemovesTicker == FirstPassOver => TickersOf(first_pass) \subseteq TickersOf(results)

\* a run in which the retry replaced a NaN record and added a missing ticker
C1_Witness ==
    /\ pc = "done"
    /\ \E r \in Range(first_pass) : IsNaN(r.RS) /\ r \notin Range(results)
    /\ TickersOf(results) \ TickersOf(first_pass) # {}

\* C2: no record of the returned list has a NaN RS.
C2_NoNaNInOutput == pc = "done" => \A r \in Range(results) : ~IsNaN(r.RS)

\* C3: the retry list holds, once each, exactly the input tickers without a
\* first-pass record of non-NaN RS (no record at all, or NaN records only); a
\* ticker with a first-pass RS of exactly 0 is not in it; and every ticker of
\* the list, and no other, is submitted to a retry batch.
C3_RetrySetExact ==
    FirstPassOver =>
        /\ Range(failed_tickers) =
               {t \in Range(ticker_info_list) :
                    \A r \in RecordsOf(first_pass, t) : IsNaN(r.RS)}
        /\ Cardinality(Range(failed_tickers)) = Len(failed_tickers)
        /\ \A r \in Range(first_pass) : r.RS = Num(0) => r.Ticker \notin Range(failed_tickers)
        /\ retried \subseteq Range(failed_tickers)
        /\ pc \in {"save", "done"} => retried = Range(failed_tickers)

\* the retry list holds a ticker with a NaN record and is being retried, next
\* to a ticker whose RS of 0 keeps it out
C3_Witness ==
    /\ pc = "retry_collect"
    /\ \E t \in Range(failed_tickers) : RecordsOf(first_pass, t) # {}
    /\ \E r \in Range(first_pass) : r.RS = Num(0)

\* some step of the run is possible: the main thread is not waiting for a
\* future, or a worker can start or finish, or the awaited future is done
CanStep ==
    \/ pc \in {"benchmark", "download", "identify", "retry_download", "save"}
    \/ \E k \in 1..Len(futures) : can_start(k) \/ can_finish(k)
    \/ pc \in {"collect", "retry_collect"} /\ can_collect

\* C7: save_sector_cache is called exactly once per run, as the last step:
\* not before the retry pass is over, and the run cannot stop before it.
C7_SaveExactlyOnce ==
    /\ save_calls = IF pc = "done" THEN 1 ELSE 0
    /\ pc = "done" => /\ retried = Range(failed_tickers)
                      /\ collected = Len(futures)
                      /\ \A k \in 1..Len(futures) : futures[k].st = "done"
    /\ pc # "done" => CanStep

\* a finished run in which every download raised
C7_Witness ==
    /\ pc = "done"
    /\ save_calls = 1
    /\ Len(ticker_info_list) > batch_size
    /\ futures = <<>>
    /\ retried = Range(ticker_info_list)

\* the first-pass futures whose frame has fewer sessions than the window
ShortHistory == {k \in 1..Len(futures) :
                    /\ ticker_frame(futures[k].ticker, data) # <<>>
                    /\ ticker_frame(futures[k].ticker, data)[1].n < MinSessions}

\* C10 as claimed: a ticker whose history is shorter than the window gets no
\* valid first-pass result and is in the retry list.
C10_ShortHistoryIsRetried ==
    JustIdentified =>
        \A k \in ShortHistory :
            /\ \A r \in RecordsOf(first_pass, futures[k].ticker) : IsNaN(r.RS)
            /\ futures[k].ticker \in Range(failed_tickers)

\* C10 amended: a ticker whose history has at least one session and fewer
\* sessions than the window gets a first-pass record with RS = 0 and is not in
\* the retry list.
C10_ShortHistoryIsZero ==
    JustIdentified =>
        \A k \in ShortHistory :
            /\ \E r \in RecordsOf(first_pass, futures[k].ticker) : r.RS = Num(0)
            /\ futures[k].ticker \notin Range(failed_tickers)

\* a first pass that met a 66-session history while another ticker failed
C10_Witness ==
    /\ JustIdentified
    /\ ShortHistory # {}
    /\ failed_tickers # <<>>
    /\ qqq_data.n >= MinSessions

-----------------------------------------------------------------------------
(* Properties of the metadata part, under SpecMetadata *)

\* the workers that have returned
Done == {k \in 1..Len(futures) : futures[k].st = "done"}

\* an entry with both fields present and neither a sentinel of the
\* specification ("N/A", "NONE", empty, "NULL")
SpecSentinels == {"N/A", "NONE", "", "NULL"}
SpecValid(cached) ==
    /\ cached # <<>>
    /\ cached[1].Sector \notin SpecSentinels \cup {Absent}
    /\ cached[1].Industry \notin SpecSentinels \cup {Absent}

\* an entry whose fields are present and are sentinels neither of the
\* specification nor of the code ('nan')
NonSentinel(cached) ==
    SpecValid(cached) /\ cached[1].Sector # "nan" /\ cached[1].Industry # "nan"

\* C4: a worker that read a cache entry with both fields set to non-sentinel
\* values reads no Ticker.info, does not assign the cache, and returns a
\* record with the cached Sector and Industry.
C4_ValidEntryShortCircuits ==
    \A k \in Done :
        NonSentinel(futures[k].loc.cached) =>
            /\ futures[k].path = "hit"
            /\ ~futures[k].wrote
            /\ futures[k].res # <<>>
            /\ futures[k].res[1].Sector = futures[k].loc.cached[1].Sector
            /\ futures[k].res[1].Industry = futures[k].loc.cached[1].Industry

\* a worker has returned the cached values of a pre-populated entry
C4_Witness ==
    \E k \in Done :
        /\ futures[k].loc.cached = Entry("Technology", "Consumer Electronics")
        /\ futures[k].res # <<>>
        /\ futures[k].res[1].Industry = "Consumer Electronics"

\* C5: a worker takes the cache-hit branch exactly for a valid entry of the
\* specification; for every other entry it reads Ticker.info.
C5_HitIffSpecValid ==
    \A k \in Done :
        futures[k].path # "none" =>
            (futures[k].path = "hit" <=> SpecValid(futures[k].loc.cached))

-----------------------------------------------------------------------------
(* Properties of a second call, under SpecRerun *)

Entries(cache) == {t \in DOMAIN cache : cache[t] # <<>>}

\* the Sector and Industry a result list reports for each ticker
Metadata(rs) == {<<rs[k].Ticker, rs[k].Sector, rs[k].Industry>> : k \in 1..Len(rs)}

\* C6: in a second call on the same list, from the cache the first call left
\* and with a provider that answers as before, the cache never holds more
\* entries than at the start of the call, no worker assigns the cache for a
\* ticker whose entry was valid at the start, and the call returns the same
\* Sector and Industry for every ticker as the first call.
C6_SecondRunIdempotent ==
    run.n = 2 =>
        /\ Cardinality(Entries(SECTOR_CACHE)) <= Cardinality(Entries(run.start))
        /\ \A k \in Done :
               futures[k].wrote => ~SpecValid(run.start[futures[k].ticker])
        /\ pc = "done" => Metadata(results) = Metadata(run.first)

\* a second call has returned; the first call had fetched and cached the
\* metadata of a ticker, the second took it from the cache
C6_Witness ==
    /\ run.n = 2
    /\ pc = "done"
    /\ info_queries = {}
    /\ \E t \in Range(ticker_info_list) :
           /\ cache_file[t] = <<>>
           /\ run.start[t] = Entry("Technology", "Software")
           /\ <<t, "Technology", "Software">> \in Metadata(results)

-----------------------------------------------------------------------------
(* Properties of the RS formulas, under SpecRS *)

\* the benchmark's latest price equals its price 60 sessions ago, a real price
FlatBenchmark ==
    /\ calc.qqq.col
    /\ IsFinite(calc.qqq.p1)
    /\ calc.qqq.p1.num > 0
    /\ calc.qqq.p61 = calc.qqq.p1

Applied == calc.by # "none" /\ calc.out # <<>>

\* (latest - ago) / ago of the stock: 0 for ago = 0, NaN for a NaN price
OwnReturn ==
    IF calc.stock.p61.nan THEN NaN
    ELSE IF calc.stock.p61.num = 0 THEN Num(0)
    ELSE IF calc.stock.p1.nan THEN NaN
    ELSE Frac(calc.stock.p1.num - calc.stock.p61.num, calc.stock.p61.num)

\* C8 as claimed: with a flat benchmark every RS is 0.
C8_FlatBenchmarkGivesZero == (Applied /\ FlatBenchmark) => calc.out[1].RS = Num(0)

\* C8 amended: with a flat benchmark the RS of a ticker is the ticker's own
\* return over the lookback (rounded to 4 decimals by app.py and
\* fetch_and_save.py; 0 in utils.py when a series has fewer than 67 sessions),
\* and it is never the result of a division by zero.
C8_FlatBenchmarkGivesOwnReturn ==
    (Applied /\ FlatBenchmark) =>
        /\ calc.out[1].RS.den # 0
        /\ calc.by = "utils" =>
               calc.out[1].RS = IF calc.stock.n >= 67 /\ calc.qqq.n >= 67
                                THEN OwnReturn ELSE Num(0)
        /\ calc.by \in {"app", "fetch"} =>
               /\ calc.stock.n >= 61
               /\ calc.out[1].RS = Round(OwnReturn, 10000)

\* a stock that went from 100 to 120 against a flat benchmark has RS 0.2
C8_Witness ==
    /\ Applied /\ FlatBenchmark
    /\ calc.by = "utils"
    /\ calc.stock.p1 = Num(120) /\ calc.stock.p61 = Num(100)
    /\ calc.out[1].RS = Frac(1, 5)

-----------------------------------------------------------------------------
(* The order of the returned list, under Spec *)

TickerSeq(rs) == [k \in 1..Len(rs) |-> rs[k].Ticker]

\* the futures at hand are those of the one retry batch
RetryFutures ==
    /\ failed_tickers # <<>>
    /\ Len(futures) = Len(failed_tickers)
    /\ \A k \in 1..Len(futures) : futures[k].ticker = failed_tickers[k]

InputPosition(t) ==
    CHOOSE k \in 1..Len(ticker_info_list) :
        /\ ticker_info_list[k] = t
        /\ \A j \in 1..(k - 1) : ticker_info_list[j] # t

\* the retry futures, enumerated in the order of the input list
InInputOrder ==
    CHOOSE f \in Orderings(1..Len(futures)) :
        \A a, b \in 1..Len(futures) :
            a < b => InputPosition(futures[f[a]].ticker) < InputPosition(futures[f[b]].ticker)

RECURSIVE MergeAll(_, _, _)
MergeAll(rs, order, k) ==
    IF k > Len(order) THEN rs
    ELSE MergeAll(retry_merge(rs, futures[order[k]].res), order, k + 1)

\* C11: the order of the returned records does not depend on the order in
\* which the failed set was enumerated: the list returned is the one the same
\* first-pass results and the same retry results give when the failed set is
\* enumerated in input order.
C11_OrderIndependentOfEnumeration ==
    (pc = "done" /\ RetryFutures) =>
        TickerSeq(results) = TickerSeq(MergeAll(first_pass, InInputOrder, 1))

-----------------------------------------------------------------------------
(* The identity of a record, under Spec *)

Submitted == {futures[k].ticker : k \in 1..Len(futures)}

\* every symbol the code has at hand is the original or its sanitized form,
\* each in its place
SymbolsInPlace ==
    /\ \A r \in Range(results) : r.Ticker \in Range(ticker_info_list)
    /\ Submitted \subseteq Range(ticker_info_list)
    /\ \A k \in Done : futures[k].res # <<>> => futures[k].res[1].Ticker = futures[k].ticker
    /\ pc \in {"collect", "retry_collect"} =>
           DOMAIN data.cols = {sanitize_ticker_for_yf(t) : t \in Submitted}
    /\ info_queries \subseteq
           {<<t, sanitize_ticker_for_yf(t)>> : t \in Range(ticker_info_list)}

\* a worker reads the cache under its original ticker
ReadsOwnKey ==
    \A k \in 1..Len(futures) :
        (k \in DOMAIN futures' /\ futures[k].st = "queued" /\ futures'[k].st = "running")
            => futures'[k].loc.cached = SECTOR_CACHE[futures[k].ticker]

\* the cache changes only under the original ticker of a worker that wrote,
\* and a worker that wrote left its Sector and Industry under that key
WritesOwnKey ==
    /\ \A t \in DOMAIN SECTOR_CACHE :
           SECTOR_CACHE'[t] # SECTOR_CACHE[t] =>
               \E k \in 1..Len(futures) :
                   /\ futures[k].ticker = t
                   /\ futures[k].st = "running" /\ futures'[k].wrote
    /\ \A k \in 1..Len(futures) :
           (k \in DOMAIN futures' /\ futures[k].st = "running" /\ futures'[k].wrote) =>
               SECTOR_CACHE'[futures[k].ticker] =
                   Entry(futures'[k].res[1].Sector, futures'[k].res[1].Industry)

\* C12: in both passes the sanitized symbol appears only in the bulk download,
\* the lookup in its result and the Ticker.info query; the Ticker of every
\* record and the key of every cache read and write is the original symbol.
C12_OriginalSymbolIsIdentity ==
    []SymbolsInPlace /\ [][ReadsOwnKey /\ WritesOwnKey]_vars

\* a ticker whose sanitized symbol differs was recovered by the retry: its
\* record and its cache entry are under the original symbol
C12_Witness ==
    /\ pc = "done"
    /\ <<"B", "-", "A">> \in retried
    /\ \E r \in Range(results) : r.Ticker = <<"B", "-", "A">> /\ ~IsNaN(r.RS)
    /\ SECTOR_CACHE[<<"B", "-", "A">>] = Entry("Technology", "Software")
    /\ info_queries = {<<<<"B", "-", "A">>, <<"B", "-", "P", "A">>>>}

-----------------------------------------------------------------------------
(* The RS formula of the three implementations, under SpecRS *)

\* both series are long enough for every implementation and the four prices
\* read are real prices
FullHistory ==
    /\ calc.stock.n >= 67 /\ calc.qqq.col /\ calc.qqq.n >= 67
    /\ \A p \in {calc.stock.p1, calc.stock.p61, calc.qqq.p1, calc.qqq.p61} :
           ~p.nan /\ p.num > 0

\* (stock[t] / stock[t-60]) / (bench[t] / bench[t-60]) - 1
Multiplicative ==
    Frac(calc.stock.p1.num * calc.qqq.p61.num - calc.stock.p61.num * calc.qqq.p1.num,
         calc.stock.p61.num * calc.qqq.p1.num)

\* C13: to 4 decimals, the RS of every implementation is the multiplicative
\* (stockChange / benchmarkChange) - 1.
C13_MultiplicativeFormula ==
    (Applied /\ FullHistory) =>
        Round(calc.out[1].RS, 10000) = Round(Multiplicative, 10000)

-----------------------------------------------------------------------------
(* The ranking of a result set (the RankingAssembler of the specification: *)
(* the code that assigns MarketCapRank is not among the source files; the   *)
(* records it ranks are those of app.calculate_batch)                       *)

MaxRecords == 3

\* x < y of two finite floats
Lt(x, y) == x.num * y.den < y.num * x.den

\* the quotes of one ticker: its latest close and the answer to the shares query
Quotes == [cur : {Num(100), Num(120)},
           shares : {CapRaised, Cap(<<Num(10)>>), Cap(<<Num(12)>>)}]

\* the record calculate_batch returns for the k-th item
Enriched(k, q) ==
    [Ticker |-> <<"T", Digit(k)>>] @@
    calculate_batch(61, q.cur, Num(100), Series(67, 110, 100, 105, 100),
                    get_shares_outstanding(q.shares))[1]

RankInputs ==
    UNION {{[k \in 1..n |-> Enriched(k, c[k])] : c \in [1..n -> Quotes]} : n \in 0..MaxRecords}

\* mutant: a record goes before the records of equal key
RECURSIVE insert_desc_unstable(_, _, _)
insert_desc_unstable(s, r, key) ==
    IF s = <<>> THEN <<r>>
    ELSE IF ~Lt(r[key], Head(s)[key]) THEN <<r>> \o s
    ELSE <<Head(s)>> \o insert_desc_unstable(Tail(s), r, key)

\* one step of a stable descending sort: r goes behind the records of equal key
RECURSIVE insert_desc(_, _, _)
insert_desc(s, r, key) ==
    IF s = <<>> THEN <<r>>
    ELSE IF Lt(Head(s)[key], r[key]) THEN <<r>> \o s
    ELSE <<Head(s)>> \o insert_desc(Tail(s), r, key)

RECURSIVE sort_desc(_, _)
sort_desc(recs, key) ==
    IF recs = <<>> THEN <<>>
    ELSE insert_desc(sort_desc(SubSeq(recs, 1, Len(recs) - 1), key), recs[Len(recs)], key)

\* MarketCapRank from a descending pass over the market cap, then the
\* descending pass over RS
assemble(recs) ==
    LET by_cap == sort_desc(recs, "MarketCap")
        ranked == [k \in 1..Len(by_cap) |-> [MarketCapRank |-> k] @@ by_cap[k]]
    IN  sort_desc(ranked, "RS")

InitRank ==
    /\ provider = PipelineProvider
    /\ ticker_info_list = <<>>
    /\ batch_size = 1
    /\ pc = "idle"
    /\ qqq_data = NoClose
    /\ i = 0
    /\ data = NoData
    /\ futures = <<>>
    /\ collected = 0
    /\ results = <<>>
    /\ failed_tickers = <<>>
    /\ cache_file = EmptyCache
    /\ SECTOR_CACHE = EmptyCache
    /\ first_pass = <<>>
    /\ retried = {}
    /\ save_calls = 0
    /\ info_queries = {}
    /\ run = FirstRun
    /\ calc = NoCalc
    /\ downloads = <<>>
    /\ assembled \in [input : RankInputs, done : {FALSE}, out : {<<>>}]

Assemble ==
    /\ ~assembled.done
    /\ assembled' = [assembled EXCEPT !.done = TRUE, !.out = assemble(assembled.input)]
    /\ UNCHANGED <<pipeline_vars, calc, downloads>>

NextRank == Assemble

SpecRank == InitRank /\ [][NextRank]_vars

-----------------------------------------------------------------------------
(* Properties of the ranking, under SpecRank *)

WithoutRank(r) == [f \in DOMAIN r \ {"MarketCapRank"} |-> r[f]]

PositionIn(recs, t) == CHOOSE k \in 1..Len(recs) : recs[k].Ticker = t

\* C14: every record of the ranked set carries a MarketCapRank; the ranks are a
\* permutation of 1..N over the records of the input; a record of larger
\* market cap has the smaller rank, so rank 1 is on the maximum; records of
\* equal market cap are ranked in their order in the input.
C14_RanksArePermutation ==
    assembled.done =>
        LET out == assembled.out
            N   == Len(assembled.input)
        IN  /\ Len(out) = N
            /\ \A k \in 1..N : "MarketCapRank" \in DOMAIN out[k]
            /\ {out[k].MarketCapRank : k \in 1..N} = 1..N
            /\ {WithoutRank(out[k]) : k \in 1..N} = Range(assembled.input)
            /\ \A a, b \in 1..N :
                   Lt(out[b].MarketCap, out[a].MarketCap) =>
                       out[a].MarketCapRank < out[b].MarketCapRank
            /\ \A a, b \in 1..N :
                   (/\ out[a].MarketCap = out[b].MarketCap
                    /\ PositionIn(assembled.input, out[a].Ticker)
                           < PositionIn(assembled.input, out[b].Ticker)) =>
                       out[a].MarketCapRank < out[b].MarketCapRank

\* three records ranked: two of equal market cap at different prices, behind
\* a larger one that came last in the input
C14_Witness ==
    /\ assembled.done
    /\ Len(assembled.out) = 3
    /\ assembled.input[1].MarketCap = Num(1200) /\ assembled.input[1].Price = Num(100)
    /\ assembled.input[2].MarketCap = Num(1200) /\ assembled.input[2].Price = Num(120)
    /\ assembled.input[3].MarketCap = Num(1440)
    /\ \E k \in 1..3 : assembled.out[k].Ticker = <<"T", "3">> /\ assembled.out[k].MarketCapRank = 1
    /\ \E k \in 1..3 : assembled.out[k].Ticker = <<"T", "1">> /\ assembled.out[k].MarketCapRank = 2

-----------------------------------------------------------------------------
(* The containment of failures, under SpecContainment *)

FirstPass == pc \in {"download", "collect", "identify"}

IsPrefix(s, t) == Len(s) <= Len(t) /\ SubSeq(t, 1, Len(s)) = s

RECURSIVE Concat(_)
Concat(ss) == IF ss = <<>> THEN <<>> ELSE Head(ss) \o Concat(Tail(ss))

FirstDownloads == SelectSeq(downloads, LAMBDA d : d.pass = "first")

\* the records the consumed futures of the current batch returned, in order
BatchRecords == Concat([k \in 1..collected |-> futures[k].res])

\* the download of a batch has just raised
DownloadRaised ==
    /\ Len(downloads') = Len(downloads) + 1
    /\ downloads'[Len(downloads')].raised

\* a raising download changes no result, and the pass goes on with the next
\* batch if there is one
RaiseSkipsOneBatch ==
    DownloadRaised =>
        /\ results' = results
        /\ (pc = "download" /\ i + batch_size < Len(ticker_info_list)) => pc' = "download"
        /\ (pc = "retry_download" /\ i + retry_batch_size < Len(failed_tickers))
               => pc' = "retry_download"

\* in the first pass no step takes a record away
FirstPassKeepsResults == FirstPass => IsPrefix(results, results')

\* when the first pass is over every input ticker was in a download
EveryBatchAttempted ==
    FirstPassOver => Concat([k \in 1..Len(FirstDownloads) |-> FirstDownloads[k].tickers])
                         = ticker_info_list

\* a worker that raised returned nothing, and the results of the first pass end
\* with the records of all the other workers consumed so far
WorkerFailureIsLocal ==
    /\ \A k \in Done :
           (futures[k].path = "hit" /\ hit_raises(futures[k].loc.cached)) => futures[k].res = <<>>
    /\ FirstPass =>
           /\ Len(BatchRecords) <= Len(results)
           /\ SubSeq(results, Len(results) - Len(BatchRecords) + 1, Len(results)) = BatchRecords
    /\ \A k \in Done :
           (futures[k].path = "miss" /\ k <= collected /\ pc = "collect") =>
               futures[k].res[1] \in Range(results)

HasValidRecord(rs, t) == \E r \in RecordsOf(rs, t) : ~IsNaN(r.RS)

\* C15 as claimed: a raising download changes no accumulated result and does
\* not stop the pass, every ticker of its batch is in the retry list, and a
\* worker that raises loses only its own record.
C15_FailureContained ==
    /\ [][RaiseSkipsOneBatch /\ FirstPassKeepsResults]_vars
    /\ [](EveryBatchAttempted /\ WorkerFailureIsLocal)
    /\ [](FirstPassOver =>
             \A k \in 1..Len(FirstDownloads) :
                 FirstDownloads[k].raised =>
                     Range(FirstDownloads[k].tickers) \subseteq Range(failed_tickers))

\* C15 amended: as claimed, except that a ticker of the batch whose download
\* raised is in the retry list unless another batch of the first pass gave it
\* a record with a non-NaN RS.
C15_FailureContainedUnlessProcessed ==
    /\ [][RaiseSkipsOneBatch /\ FirstPassKeepsResults]_vars
    /\ [](EveryBatchAttempted /\ WorkerFailureIsLocal)
    /\ [](FirstPassOver =>
             \A k \in 1..Len(FirstDownloads) :
                 FirstDownloads[k].raised =>
                     \A t \in Range(FirstDownloads[k].tickers) :
                         t \in Range(failed_tickers) <=> ~HasValidRecord(first_pass, t))

\* in one batch the worker of "A" raised on its cache entry and the other
\* ticker got its record; the download of the retry of "A" raised and the
\* record is still there
C15_Witness ==
    /\ pc = "done"
    /\ Len(downloads) = 2
    /\ ~downloads[1].raised /\ Len(downloads[1].tickers) = 2
    /\ downloads[2].raised /\ downloads[2].tickers = <<<<"A">>>>
    /\ Len(results) = 1
    /\ results[1].Ticker = <<"B", "-", "A">>
    /\ cache_file[<<"A">>] = Entry("Technology", Absent)

-----------------------------------------------------------------------------
(* The benchmark, under SpecBenchmark *)

BenchmarkFetched == pc # "benchmark"

\* the QQQ download raised or returned fewer sessions than the window
BenchmarkUnusable == BenchmarkFetched /\ (~qqq_data.close \/ qqq_data.n < MinSessions)

\* the fetch is the first step of the run and the only one that binds qqq_data
FetchedOnceAtStart ==
    /\ pc = "benchmark" => (pc' # "benchmark" /\ downloads' = <<>>)
    /\ pc # "benchmark" => (pc' # "benchmark" /\ qqq_data' = qqq_data)

\* the records the workers of the batch at hand returned
Returned == {futures[k].res[1] : k \in {d \in Done : futures[d].res # <<>>}}

\* C16: the benchmark is fetched once, as the first step of the run, before
\* any batch download, and the frame it left is the one every batch of both
\* passes is scored against; with a benchmark that could not be fetched or is
\* shorter than the window the run still goes on to its end and every record
\* has RS = 0.
C16_BenchmarkOnceAndDegradesToZero ==
    /\ [][FetchedOnceAtStart]_vars
    /\ [](~BenchmarkFetched => (downloads = <<>> /\ results = <<>>))
    /\ [](BenchmarkUnusable => \A r \in Range(results) \cup Returned : r.RS = Num(0))
    /\ []((BenchmarkFetched /\ ~BenchmarkUnusable) =>
             \A r \in Returned : r.Price = Num(120) => r.RS = Frac(1, 10))
    /\ [](pc # "done" => CanStep)

\* a finished run without a benchmark: a ticker was retried after a download
\* that raised, and its record has RS = 0 at a price of 120
C16_Witness ==
    /\ pc = "done"
    /\ ~qqq_data.close
    /\ \E k \in 1..Len(downloads) : downloads[k].pass = "retry" /\ ~downloads[k].raised
    /\ \E r \in Range(results) : r.Price = Num(120) /\ r.RS = Num(0)
    /\ \E r \in Returned : r.Price = Num(120) /\ r.RS = Num(0)

-----------------------------------------------------------------------------
(* A benchmark whose price 60 sessions ago is 0, under SpecRS *)

\* the benchmark has a Close column and its price at iloc[-61] is 0
ZeroBenchmarkBase == calc.qqq.col /\ calc.qqq.close /\ calc.qqq.p61 = Num(0)

\* the stock has real, positive prices at both ends of the lookback
RealStockPrices ==
    /\ IsFinite(calc.stock.p1) /\ calc.stock.p1.num > 0
    /\ IsFinite(calc.stock.p61) /\ calc.stock.p61.num > 0

\* C17: with a benchmark price of 0 sixty sessions ago the RS of a ticker is 0,
\* not the ticker's own return.
C17_ZeroBenchmarkBaseForcesZero ==
    (Applied /\ ZeroBenchmarkBase /\ RealStockPrices) => calc.out[1].RS = Num(0)

\* the same statement for app.calculate_batch and fetch_and_save only
C17_ZeroBenchmarkBaseForcesZeroInBatchScreens ==
    (Applied /\ ZeroBenchmarkBase /\ RealStockPrices /\ calc.by \in {"app", "fetch"})
        => calc.out[1].RS = Num(0)

\* process_single_ticker gives the stock's own return instead
C17_UtilsGivesOwnReturn ==
    (Applied /\ ZeroBenchmarkBase /\ RealStockPrices /\ calc.by = "utils"
        /\ calc.stock.n >= MinSessions /\ calc.qqq.n >= MinSessions)
        => calc.out[1].RS = OwnReturn

-----------------------------------------------------------------------------
(* The batches of the first pass, under SpecPartition *)

\* the tickers of the k-th bulk download of the first pass
FirstBatch(k) == FirstDownloads[k].tickers

\* the input positions of the k-th batch
Positions(k) ==
    {n \in 1..Len(ticker_info_list) : (k - 1) * batch_size < n /\ n <= k * batch_size}

\* the batches downloaded so far are the successive slices of the input
ContiguousSlices ==
    \A k \in 1..Len(FirstDownloads) :
        /\ Positions(k) # {}
        /\ Len(FirstBatch(k)) = Cardinality(Positions(k))
        /\ \A n \in Positions(k) :
               FirstBatch(k)[n - (k - 1) * batch_size] = ticker_info_list[n]

BatchSizes ==
    \A k \in 1..Len(FirstDownloads) :
        /\ Len(FirstBatch(k)) >= 1
        /\ Len(FirstBatch(k)) <= batch_size
        /\ k < Len(FirstDownloads) => Len(FirstBatch(k)) = batch_size

\* the tickers submitted to the pool are those of the batch just downloaded
SubmittedIsBatch ==
    pc = "collect" =>
        [k \in 1..Len(futures) |-> futures[k].ticker]
            = FirstBatch(Len(FirstDownloads))

\* C18: the first pass cuts the input list into contiguous batches in input
\* order: every batch but the last has batch_size tickers, the last has 1 to
\* batch_size, every position is in exactly one batch and the batches
\* concatenated give the input list.
C18_FirstPassPartitionsInput ==
    /\ ContiguousSlices
    /\ BatchSizes
    /\ SubmittedIsBatch
    /\ FirstPassOver =>
           /\ Concat([k \in 1..Len(FirstDownloads) |-> FirstBatch(k)]) = ticker_info_list
           /\ \A n \in 1..Len(ticker_info_list) :
                  Cardinality({k \in 1..Len(FirstDownloads) : n \in Positions(k)}) = 1

\* three tickers in batches of two: a full batch and a last batch of one
C18_Witness ==
    /\ FirstPassOver
    /\ batch_size = 2
    /\ Len(ticker_info_list) = 3
    /\ Len(FirstDownloads) = 2
    /\ Len(FirstBatch(1)) = 2
    /\ FirstBatch(2) = <<ticker_info_list[3]>>
    /\ ~FirstDownloads[1].raised

-----------------------------------------------------------------------------
(* The worker pool and the sequence of batches, under SpecPool *)

Queue == {k \in 1..Len(futures) : futures[k].st = "queued"}

\* a bulk download (of either pass) is issued in this step
DownloadStarts == Len(downloads') = Len(downloads) + 1

\* no worker of a batch is pending or running
PoolIdle == Queue = {} /\ Running = {}

\* C19: a bulk download, of the first pass or of the retry, starts only when
\* every worker of the batch before it has finished, workers run only between
\* the download of their batch and the next step of the main loop, and at most
\* 5 workers run at the same time.
C19_BatchesSequentialPoolOfFive ==
    /\ [][DownloadStarts => PoolIdle]_vars
    /\ [](pc \notin {"collect", "retry_collect"} => PoolIdle)
    /\ [](Cardinality(Running) <= 5)

\* five workers of a batch of six are running and the sixth waits for a thread
C19_Witness ==
    /\ pc = "collect"
    /\ Len(futures) = 6
    /\ Cardinality(Running) = 5
    /\ Cardinality(Queue) = 1
    /\ \A k \in Queue : ~can_start(k)

-----------------------------------------------------------------------------
(* The writes of the workers to SECTOR_CACHE, under SpecSharedCache *)

\* the worker of future k returns in this step
Finishes(k) == futures[k].st = "running" /\ futures'[k].st = "done"

\* the (Sector, Industry) the worker of future k resolved
Resolved(k) == Entry(futures[k].res[1].Sector, futures[k].res[1].Industry)

\* the futures of the batch whose workers assigned SECTOR_CACHE[t]
WritersOf(t) == {k \in 1..Len(futures) : futures[k].ticker = t /\ futures[k].wrote}

\* an entry changes only in the step of a worker of that ticker that assigns
\* it, and it becomes what that worker resolved
OnlyOwnEntryWritten ==
    \A t \in Universe :
        SECTOR_CACHE'[t] # SECTOR_CACHE[t] =>
            \E k \in 1..Len(futures) :
                /\ Finishes(k)
                /\ futures[k].ticker = t
                /\ futures'[k].wrote
                /\ SECTOR_CACHE'[t] = Entry(futures'[k].res[1].Sector,
                                           futures'[k].res[1].Industry)

\* a worker that assigns its entry leaves it in the cache, whatever the other
\* workers of the batch have done since it read the cache
WriteTakesEffect ==
    \A k \in 1..Len(futures) :
        (Finishes(k) /\ futures'[k].wrote) =>
            SECTOR_CACHE'[futures[k].ticker] =
                Entry(futures'[k].res[1].Sector, futures'[k].res[1].Industry)

\* with every worker of the batch returned: a written entry is what a worker
\* of that ticker resolved (the worker itself when the batch holds the ticker
\* once), and an entry no worker wrote is the one the batch started from
AfterBatch ==
    (pc \in {"collect", "retry_collect"} /\ Queue = {} /\ Running = {}) =>
        \A k \in 1..Len(futures) :
            futures[k].wrote =>
                /\ \E j \in WritersOf(futures[k].ticker) :
                       SECTOR_CACHE[futures[k].ticker] = Resolved(j)
                /\ WritersOf(futures[k].ticker) = {k} =>
                       SECTOR_CACHE[futures[k].ticker] = Resolved(k)

\* an entry of a ticker that is in no list is the one of the cache file
ForeignEntryKept ==
    \A t \in Universe \ Range(ticker_info_list) : SECTOR_CACHE[t] = cache_file[t]

\* C20: in every interleaving of the workers of a batch, a worker assigns only
\* SECTOR_CACHE[its own ticker]: each assignment takes effect, a written entry
\* holds the (Sector, Industry) a worker of that ticker resolved, and no entry
\* of another ticker is changed or lost.
C20_UnlockedCacheWritesAreSafe ==
    /\ [][OnlyOwnEntryWritten /\ WriteTakesEffect]_vars
    /\ []AfterBatch
    /\ [](pc # "done" => ForeignEntryKept)

\* two workers of one batch both read the cache before either wrote; they
\* resolved different values for two tickers, and both entries are in the
\* cache next to the entry of a third ticker
C20_Witness ==
    /\ pc = "collect"
    /\ Len(futures) = 2
    /\ futures[1].ticker # futures[2].ticker
    /\ \A k \in 1..2 : futures[k].st = "done" /\ futures[k].wrote
                         /\ futures[k].loc.cached = <<>>
                         /\ SECTOR_CACHE[futures[k].ticker] = Resolved(k)
    /\ Resolved(1) = Entry("ETF", "ETF")
    /\ Resolved(2) = Entry("Technology", "Software")
    /\ SECTOR_CACHE[<<"B", ".", "P", "A">>] = Entry("Technology", "Consumer Electronics")

-----------------------------------------------------------------------------
(* The retry pass and the end of the run, under SpecTermination *)

RetryDownloads == SelectSeq(downloads, LAMBDA d : d.pass = "retry")

\* the bulk downloads, of both passes, that asked for ticker t
Attempts(t) == {k \in 1..Len(downloads) : t \in Range(downloads[k].tickers)}

FirstAttempts(t) == {k \in Attempts(t) : downloads[k].pass = "first"}

RetryAttempts(t) == {k \in Attempts(t) : downloads[k].pass = "retry"}

\* how many times t is in the input list
Occurrences(t) == Cardinality({n \in 1..Len(ticker_info_list) : ticker_info_list[n] = t})

\* a retry download is issued in this step
RetryStarts == DownloadStarts /\ downloads'[Len(downloads')].pass = "retry"

\* the retry starts with the first pass over: every batch of the input was
\* downloaded, every future was consumed and no worker is left
RetryAfterFullFirstPass ==
    RetryStarts =>
        /\ Concat([k \in 1..Len(FirstDownloads) |-> FirstDownloads[k].tickers])
               = ticker_info_list
        /\ collected = Len(futures)
        /\ PoolIdle

\* no download of the first pass follows a download of the retry
PassesInOrder ==
    \A j, k \in 1..Len(downloads) :
        (j < k /\ downloads[j].pass = "retry") => downloads[k].pass = "retry"

\* a ticker is in at most one retry download, once
OneRetryPerTicker ==
    /\ \A t \in Range(ticker_info_list) : Cardinality(RetryAttempts(t)) <= 1
    /\ \A k \in 1..Len(RetryDownloads) :
           /\ Range(RetryDownloads[k].tickers) \subseteq Range(ticker_info_list)
           /\ Cardinality(Range(RetryDownloads[k].tickers)) = Len(RetryDownloads[k].tickers)

\* the function has returned, and stays so
HasReturned == pc = "done"

\* C21 as claimed: the retry follows the full first pass, a ticker is in at
\* most one retry download and so in at most two bulk downloads of the run,
\* and the run ends.
C21_RetryOnceThenReturn ==
    /\ [][RetryAfterFullFirstPass]_vars
    /\ [](PassesInOrder /\ OneRetryPerTicker)
    /\ [](\A t \in Range(ticker_info_list) : Cardinality(Attempts(t)) <= 2)
    /\ <>[]HasReturned

\* C21 amended: the retry follows the full first pass, a ticker is in at most
\* one retry download, so in at most two bulk downloads of the run when the
\* input holds it once and in at most one more than its occurrences
\* otherwise, and the run ends.
C21_RetryOnceThenReturnPerOccurrence ==
    /\ [][RetryAfterFullFirstPass]_vars
    /\ [](PassesInOrder /\ OneRetryPerTicker)
    /\ [](\A t \in Range(ticker_info_list) :
             /\ Cardinality(FirstAttempts(t)) <= Occurrences(t)
             /\ Cardinality(Attempts(t)) <= Occurrences(t) + 1
             /\ Occurrences(t) = 1 => Cardinality(Attempts(t)) <= 2)
    /\ <>[]HasReturned

\* a finished run of two tickers in two batches: the ticker of the first batch
\* had a NaN RS and was downloaded once more, in a retry that came after the
\* second batch
C21_Witness ==
    /\ pc = "done"
    /\ Len(ticker_info_list) = 2
    /\ \E r \in Range(first_pass) : IsNaN(r.RS)
    /\ Len(FirstDownloads) = 2
    /\ Len(RetryDownloads) = 1
    /\ downloads[3].pass = "retry"
    /\ \E t \in Range(FirstDownloads[1].tickers) :
           /\ Occurrences(t) = 1
           /\ Cardinality(Attempts(t)) = 2
           /\ RetryAttempts(t) = {3}

-----------------------------------------------------------------------------
(* One record per ticker, under Spec *)

\* the input tickers are pairwise distinct
DistinctInput == Cardinality(Range(ticker_info_list)) = Len(ticker_info_list)

\* the positions of the records of ticker t in rs
PositionsOf(rs, t) == {n \in 1..Len(rs) : rs[n].Ticker = t}

OneRecordPerTicker ==
    /\ \A t \in TickersOf(results) : Cardinality(PositionsOf(results, t)) = 1
    /\ TickersOf(results) \subseteq Range(ticker_info_list)

\* the retry consumes a record with a non-NaN RS in this step
Recovers ==
    /\ pc = "retry_collect"
    /\ collected' = collected + 1
    /\ futures[collected + 1].res # <<>>
    /\ ~IsNaN(futures[collected + 1].res[1].RS)

\* the recovered record is the last and the only record of its ticker, and the
\* records of the other tickers are those of before, in the same order
ReplacesEarlierRecord ==
    Recovers =>
        LET res == futures[collected + 1].res[1]
            Other(r) == r.Ticker # res.Ticker
        IN  /\ results'[Len(results')] = res
            /\ PositionsOf(results', res.Ticker) = {Len(results')}
            /\ SelectSeq(results', Other) = SelectSeq(results, Other)

\* no ticker has a record with a NaN RS next to one with a number
NoFailedNextToRecovered ==
    \A t \in TickersOf(results) :
        ~(\E r, q \in RecordsOf(results, t) : IsNaN(r.RS) /\ ~IsNaN(q.RS))

\* C22: with pairwise distinct input tickers the result list holds, during the
\* run and when it is returned, at most one record per ticker and only records
\* of input tickers; a retry that succeeds replaces the earlier record of its
\* ticker, so that no ticker has both a failed and a recovered record.
C22_OneRecordPerDistinctTicker ==
    /\ [](DistinctInput => (OneRecordPerTicker /\ NoFailedNextToRecovered))
    /\ [][DistinctInput => ReplacesEarlierRecord]_vars

\* a returned list of two distinct tickers: the first had a NaN RS in the first
\* pass and its record was replaced by the record of the retry, which now
\* comes after the record of the second ticker
C22_Witness ==
    /\ pc = "done"
    /\ DistinctInput
    /\ Len(ticker_info_list) = 2
    /\ Len(first_pass) = 2
    /\ IsNaN(first_pass[1].RS)
    /\ ~IsNaN(first_pass[2].RS)
    /\ Len(results) = 2
    /\ results[1] = first_pass[2]
    /\ results[2].Ticker = first_pass[1].Ticker
    /\ ~IsNaN(results[2].RS)

====
